---- MODULE Spec2Model ----
(***************************************************************************)
(* State machine of the Eburon AI single-page application:                 *)
(*   src/App.tsx            root orchestrator (App) and the service layer  *)
(*                          (identifyImage, generateFluxImage,             *)
(*                          generateAIImage, bringToLife)                  *)
(*   src/components/InputArea.tsx   submit guards of the input component   *)
(*                                                                         *)
(* One action per event-loop task: a user event, the settling of a remote  *)
(* call, a timer, a React passive effect.  Remote results, errors, file    *)
(* contents and the clock are inputs drawn with \E from small sets.        *)
(* The `identifications` state of App (line 19) is written by              *)
(* handleGenerate and read nowhere; the detections that matter travel in   *)
(* the handler's local variable and in the Creation.                       *)
(***************************************************************************)
EXTENDS Integers, Sequences, FiniteSets, TLC

VARIABLES
    history,          \* useState<Creation[]>            App.tsx:17
    activeCreation,   \* useState<Creation | null>       App.tsx:15
    isGenerating,     \* useState(false)                 App.tsx:16
    hasApiKey,        \* useState<boolean | null>        App.tsx:18  ("null", "true", "false")
    storage,          \* localStorage item 'gemini_app_history'
    storageFull,      \* environment: the origin's quota is used up, setItem throws
    effectPending,    \* the [history] passive effect is scheduled (App.tsx:78-82)
    phase,            \* "mount": constructed, mount effects not yet run; "ready"
    aistudio,         \* environment: window.aistudio is present
    keyCheck,         \* checkKey awaits hasSelectedApiKey()     App.tsx:26
    keySelecting,     \* handleOpenKeySelection awaits openSelectKey()  App.tsx:37
    exAll,            \* the await of Promise.all (line 64): "idle","waiting","rejected","done"
    reqs,             \* in-flight handleGenerate / handleGenerateImage calls
    nextId,           \* number of crypto.randomUUID() values issued so far
    alert,            \* a window.alert() dialog is up (it blocks the event loop)
    eventSource,      \* per invocation, the connection of the EventSource of
                      \* generateFluxImage (App.tsx:383): "open", or "closed"
                      \* (also when none was created)
    \* InputArea.tsx
    text,             \* useState('')                    InputArea.tsx:31
    interimText,      \* useState('')                    InputArea.tsx:32
    file,             \* useState<File | null>: a file is attached   InputArea.tsx:33
    isRecording,      \* useState(false)                 InputArea.tsx:34
    finalTranscriptRef, \* useRef('')                    InputArea.tsx:41
    recognition,      \* the speech engine behind recognitionRef: "none" (the browser
                      \* has no SpeechRecognition), "idle", "listening", "stopping"
    \* bringToLife
    responseText,     \* response.text of the hosted model           App.tsx:488
    returnedText      \* what bringToLife returned for it            App.tsx:490

appVars == <<history, activeCreation, isGenerating, hasApiKey,
             storage, storageFull, effectPending, phase, aistudio, keyCheck,
             keySelecting, exAll, reqs, nextId, alert, eventSource>>
inputVars == <<text, interimText, file, isRecording, finalTranscriptRef,
               recognition>>
serviceVars == <<responseText, returnedText>>
vars == <<appVars, inputVars, serviceVars>>

----------------------------------------------------------------------------
\* Bounds of the model.
MaxReq  == 1      \* handler invocations in flight at once
MaxIds  == 1      \* crypto.randomUUID() values issued over all sessions
MaxHist == 4      \* entries of the history list
MaxTime == 1      \* clock readings 1..MaxTime
MaxResp == 4      \* tokens of a response text of the hosted model
MaxText == 3      \* tokens of the text of the input field

\* Program constants.
NumExamples == 3      \* exampleUrls
InvalidDate == -1     \* time value NaN of an Invalid Date

Slots == 1..MaxReq
Times == 1..MaxTime

----------------------------------------------------------------------------
\* Identifiers: <<kind, n>>.  "uuid" from crypto.randomUUID(), "ex" the id
\* stored in example file n, "file" an id found only in an imported file.
NoId         == <<"none", 0>>
Uuid(n)      == <<"uuid", n>>
ExampleId(i) == <<"ex", i>>
ForeignId    == <<"file", 1>>

\* IdentificationResult[] as a sequence of labels; an optional list is
\* [def, v] with def = FALSE for undefined.
DetLists  == {<< >>, <<"button">>}
Undefined == [def |-> FALSE, v |-> << >>]
Some(d)   == [def |-> TRUE, v |-> d]

\* JSON values of a "timestamp" property.
JMissing   == [k |-> "missing", v |-> 0]     \* property absent (undefined)
JNull      == [k |-> "null", v |-> 0]
JIso(t)    == [k |-> "iso", v |-> t]         \* ISO-8601 string of time t
JGarbage   == [k |-> "garbage", v |-> 0]     \* a string Date cannot parse

\* JavaScript truthiness of a timestamp JSON value (used by `x || Date.now()`).
Truthy(j) == j.k \in {"iso", "garbage"}

\* new Date(x) for a parsed JSON value x: the time value of the Date.
NewDate(j) ==
    CASE j.k = "iso"     -> j.v
      [] j.k = "null"    -> 0
      [] j.k = "garbage" -> InvalidDate
      [] j.k = "missing" -> InvalidDate

\* Date.prototype.toJSON, as JSON.stringify applies it.
DateToJSON(d) == IF d = InvalidDate THEN JNull ELSE JIso(d)

\* A Creation: id, timestamp (time value), and the origin of
\* its html ("gen" model output, "flux" image page, "file" imported/example),
\* img = originalImage is defined.
Creation(id, ts, ident, html, img) ==
    [id |-> id, ts |-> ts, ident |-> ident, html |-> html, img |-> img]
Null == Creation(NoId, 0, Undefined, "", FALSE)

Ids(h) == {h[i].id : i \in 1..Len(h)}

----------------------------------------------------------------------------
\* Browser storage.  The item is absent, a string JSON.parse rejects, or the
\* JSON text of an array of records.
NoItem      == [k |-> "none", v |-> << >>]
GarbageItem == [k |-> "garbage", v |-> << >>]

\* JSON.stringify(history): Dates go through toJSON, undefined properties are
\* dropped (and read back as undefined).
Serialize(h) ==
    [k |-> "json",
     v |-> [i \in 1..Len(h) |->
              [id |-> h[i].id, ts |-> DateToJSON(h[i].ts), ident |-> h[i].ident,
               html |-> h[i].html, img |-> h[i].img]]]

\* initHistory, lines 44-54: getItem, JSON.parse, re-hydrate each timestamp.
LoadHistory(saved) ==
    IF saved.k = "json"
    THEN [i \in 1..Len(saved.v) |->
            Creation(saved.v[i].id, NewDate(saved.v[i].ts), saved.v[i].ident,
                     saved.v[i].html, saved.v[i].img)]
    ELSE << >>

\* The body of the [history] effect: what the item is after the effect ran.
PersistWrite(h, item, full) ==
    IF Len(h) > 0 /\ ~full THEN Serialize(h) ELSE item

----------------------------------------------------------------------------
\* Text: a sequence of tokens.  " " and "\n" are white space (what \s and
\* trim() take), Fence is the marker of three backticks, "html" and "HTML" the language tag
\* after an opening fence, every other token stands for other characters.
Fence == "[fence]"
IsSpace(tok) == tok \in {" ", "\n"}

RECURSIVE TrimStart(_)
TrimStart(str) ==
    IF str # << >> /\ IsSpace(Head(str)) THEN TrimStart(Tail(str)) ELSE str

RECURSIVE TrimEnd(_)
TrimEnd(str) ==
    IF str # << >> /\ IsSpace(str[Len(str)])
    THEN TrimEnd(SubSeq(str, 1, Len(str) - 1)) ELSE str

\* String.prototype.trim
Trim(str) == TrimEnd(TrimStart(str))

\* bringToLife, lines 488-490.
\* response.text || "<!-- Failed to generate content -->"
FailedToGenerate == <<"<!-- Failed to generate content -->">>
OrFailedToGenerate(resp) == IF resp = << >> THEN FailedToGenerate ELSE resp

\* .replace(/^```html\s*/i, '')
ReplaceOpeningHtmlFence(str) ==
    IF Len(str) >= 2 /\ str[1] = Fence /\ str[2] \in {"html", "HTML"}
    THEN TrimStart(SubSeq(str, 3, Len(str))) ELSE str

\* .replace(/^```\s*/, '')
ReplaceOpeningFence(str) ==
    IF Len(str) >= 1 /\ str[1] = Fence THEN TrimStart(Tail(str)) ELSE str

\* .replace(/```$/, ''): without the m flag $ is the end of the input only.
ReplaceClosingFence(str) ==
    IF Len(str) >= 1 /\ str[Len(str)] = Fence
    THEN SubSeq(str, 1, Len(str) - 1) ELSE str

\* The string bringToLife returns for response.text = resp.
bringToLifeText(resp) ==
    Trim(ReplaceClosingFence(ReplaceOpeningFence(ReplaceOpeningHtmlFence(
        OrFailedToGenerate(resp)))))

\* The html of a Creation keeps only whether the text is empty.
HtmlOf(str) == IF str = << >> THEN "" ELSE "gen"

\* Response texts of the hosted model: all token sequences up to MaxResp.
ResponseTokens == {Fence, "html", "HTML", " ", "\n", "<p>"}
ResponseTexts ==
    UNION {[1..n -> ResponseTokens] : n \in 0..MaxResp}
\* The responses tried in the generation flow: plain html, a fenced
\* document, an empty fence.
SampleResponses ==
    { <<"<p>">>, <<Fence, "html", "\n", "<p>", "\n", Fence>>,
      <<Fence, "html", "\n", Fence>> }
NotReturned == <<"(pending)">>

----------------------------------------------------------------------------
\* Errors: message (a sequence of fragments; << >> when there is none),
\* status and code.
Err(m, s, c) == [message |-> m, status |-> s, code |-> c]
KeyResetRequired == <<"KEY_RESET_REQUIRED">>
KeyResetError    == Err(KeyResetRequired, "", 0)
EventError       == Err(<< >>, "", 0)     \* a DOM Event / ProgressEvent
FluxTimedOut     == Err(<<"FLUX generation timed out">>, "", 0)
FluxNoImage      == Err(<<"FLUX generation failed to return image data">>, "", 0)
GeminiNoImage    == Err(<<"No image data returned from Gemini Pro Image">>, "", 0)

\* What a call of the hosted model can fail with.
RemoteErrors ==
    { Err(<<"Requested entity was not found">>, "", 0),
      Err(<<"exceeded", "quota", "for project">>, "", 0),
      Err(<<"RESOURCE_EXHAUSTED">>, "", 0),
      Err(<<"too many requests">>, "RESOURCE_EXHAUSTED", 0),
      Err(<<"too many requests">>, "", 429),
      Err(<<"internal error">>, "INTERNAL", 500),
      Err(<< >>, "", 0) }

Includes(m, frag) == \E i \in 1..Len(m) : m[i] = frag

\* Mutant of isQuotaOrAuthError: the code 429 is not looked at.
isQuotaOrAuthErrorNoCode(error) ==
    \/ Includes(error.message, "Requested entity was not found")
    \/ Includes(error.message, "quota")
    \/ Includes(error.message, "RESOURCE_EXHAUSTED")
    \/ error.status = "RESOURCE_EXHAUSTED"

isQuotaOrAuthError(error) ==
    \/ Includes(error.message, "Requested entity was not found")
    \/ Includes(error.message, "quota")
    \/ Includes(error.message, "RESOURCE_EXHAUSTED")
    \/ error.status = "RESOURCE_EXHAUSTED"
    \/ error.code = 429

\* The catch blocks of bringToLife and generateAIImage: the error they throw.
Rethrown(error) == IF isQuotaOrAuthError(error) THEN KeyResetError ELSE error

\* Mutant of IdentifyThrows: every identification failure is thrown on.
IdentifyThrowsAlways(error) == TRUE

\* The catch block of identifyImage: throw KEY_RESET_REQUIRED, or return [].
IdentifyThrows(error) == isQuotaOrAuthError(error)

----------------------------------------------------------------------------
\* In-flight handler invocations.  pc is the await the invocation is
\* suspended at:
\*   "identify"  handleGenerate, fileToBase64 / identifyImage   (lines 114-117)
\*   "generate"  handleGenerate, bringToLife                    (line 126)
\*   "post"      generateFluxImage, fetch POST / json()         (lines 356-376)
\*   "sse"       generateFluxImage, the EventSource promise     (lines 382-410)
\*   "fallback"  generateAIImage                                (line 413)
\* file: a file was attached; dets: detections; ctx: bringToLife was given a
\* detectionContext; idCaught: identifyImage's catch block ran.
Idle == [pc |-> "idle", file |-> FALSE, dets |-> << >>, ctx |-> FALSE,
         idCaught |-> FALSE]
Req(pc, hasFile, dets, ctx, caught) ==
    [pc |-> pc, file |-> hasFile, dets |-> dets, ctx |-> ctx, idCaught |-> caught]

FreeSlots == {r \in Slots : reqs[r].pc = "idle"}
FreeSlot  == CHOOSE r \in FreeSlots : \A q \in FreeSlots : r <= q

\* What a mapper of line 64 settles to besides a Creation: null (non-OK
\* response) or a rejection.
NullEx   == Creation(<<"null", 0>>, 0, Undefined, "", FALSE)
Rejected == Creation(<<"rejected", 0>>, 0, Undefined, "", FALSE)
Examples == 1..NumExamples

\* The main view is rendered unless hasApiKey === false (line 167).
MainView == hasApiKey # "false"
\* Event handlers run once mounted and with no passive effect outstanding.
\* The state of a freshly mounted InputArea (lines 31-41, 58-96).
InputAreaMounted ==
    /\ text = << >> /\ interimText = << >> /\ file = FALSE
    /\ isRecording = FALSE /\ finalTranscriptRef = << >>
    /\ recognition \in {"none", "idle"}
\* Event handlers run once mounted, with no passive effect outstanding, no
\* alert dialog up, and the tree rendered for the current state (the gated
\* view has no InputArea).
Ready ==
    /\ phase = "ready" /\ ~effectPending
    /\ ~alert
    /\ MainView \/ InputAreaMounted

----------------------------------------------------------------------------
\* What an earlier session can have left in storage: it imported one file
\* (with a timestamp Date can or cannot parse) and its [history] effect ran.
PersistedItems ==
    {Serialize(<<Creation(ForeignId, NewDate(ts), Undefined, "file", FALSE)>>) :
        ts \in {JIso(t) : t \in Times} \cup {JGarbage}}

AppInit ==
    /\ history = << >>
    /\ activeCreation = Null
    /\ isGenerating = FALSE
    /\ hasApiKey = "null"
    /\ storage \in {NoItem, GarbageItem, Serialize(<< >>)} \cup PersistedItems
    /\ storageFull \in BOOLEAN
    /\ storageFull => storage = NoItem
    /\ effectPending = FALSE
    /\ phase = "mount"
    /\ aistudio \in BOOLEAN
    /\ keyCheck = FALSE
    /\ keySelecting = FALSE
    /\ exAll = "idle"
    /\ reqs = [r \in Slots |-> Idle]
    /\ nextId = 0
    /\ alert = FALSE
    /\ eventSource = [r \in Slots |-> "closed"]

InputInit ==
    /\ text = << >>
    /\ interimText = << >>
    /\ file = FALSE
    /\ isRecording = FALSE
    /\ finalTranscriptRef = << >>

ServiceInit ==
    /\ responseText = << >>
    /\ returnedText = NotReturned

\* The root orchestrator and the service layer; the input component is
\* represented by its submit guards, its contents being inputs.
Init ==
    /\ AppInit
    /\ InputInit /\ recognition = "idle"
    /\ ServiceInit

\* The mount effects (lines 23-33, 42-76, 78-82) up to their first await.
Mount ==
    /\ phase = "mount"
    /\ phase' = "ready"
    /\ IF aistudio
         THEN keyCheck' = TRUE /\ hasApiKey' = hasApiKey
         ELSE keyCheck' = FALSE /\ hasApiKey' = "true"
    /\ LET loadedHistory == LoadHistory(storage) IN
         IF Len(loadedHistory) > 0
         THEN /\ history' = loadedHistory
              /\ effectPending' = TRUE
              /\ exAll' = "idle"
         ELSE /\ history' = history
              /\ effectPending' = FALSE
              /\ exAll' = "waiting"
    /\ UNCHANGED <<activeCreation, isGenerating, storage,
                   storageFull, aistudio, keySelecting, reqs, nextId,
                   alert, eventSource, inputVars, serviceVars>>

\* checkKey resumes: setHasApiKey(hasKey), line 27.
KeyCheckReturns(hasKey) ==
    /\ Ready
    /\ keyCheck
    /\ keyCheck' = FALSE
    /\ hasApiKey' = IF hasKey THEN "true" ELSE "false"
    /\ UNCHANGED <<history, activeCreation, isGenerating, storage, storageFull, effectPending, phase, aistudio,
                   keySelecting, exAll, reqs, nextId,
                   alert, eventSource, inputVars, serviceVars>>

\* The [history] effect, lines 78-82; a throwing setItem is caught.
PersistEffect ==
    /\ effectPending
    /\ effectPending' = FALSE
    /\ storage' = PersistWrite(history, storage, storageFull)
    /\ UNCHANGED <<history, activeCreation, isGenerating, hasApiKey,
                   storageFull, phase, aistudio, keyCheck,
                   keySelecting, exAll, reqs, nextId,
                   alert, eventSource, inputVars, serviceVars>>

----------------------------------------------------------------------------
\* Mutant of handleError: every error leads to the gated view.
handleErrorAlwaysGates(error) ==
    /\ hasApiKey' = "false"
    /\ alert' = FALSE
    /\ isGenerating' = FALSE

\* Mutant of handleError: the key-reset signal is treated like any error.
handleErrorNeverGates(error) ==
    /\ hasApiKey' = hasApiKey
    /\ alert' = TRUE
    /\ isGenerating' = FALSE

\* handleError, lines 93-102: the gated view on the key-reset signal, a
\* generic alert otherwise; the generating flag is cleared on both branches.
\* alert() returns when the dialog is dismissed and nothing else runs until
\* then: the handler is one step, which leaves the dialog to be dismissed.
handleError(error) ==
    /\ hasApiKey' = IF error.message = KeyResetRequired THEN "false" ELSE hasApiKey
    /\ alert' = (error.message # KeyResetRequired)
    /\ isGenerating' = FALSE

\* The user dismisses the alert dialog; the handler that raised it goes on.
DismissAlert ==
    /\ alert
    /\ alert' = FALSE
    /\ UNCHANGED <<history, activeCreation, isGenerating, hasApiKey,
                   storage, storageFull, effectPending, phase,
                   aistudio, keyCheck, keySelecting, exAll, reqs, nextId,
                   eventSource, inputVars, serviceVars>>

\* Mutant of Prepend: the new entry is added at the end.
PrependAtEnd(c, prev) == prev \o <<c>>

\* [newCreation, ...prev], lines 137 and 160.
Prepend(c, prev) == <<c>> \o prev

\* Lines 136-138 and 159-161: the new Creation becomes active and is
\* prepended; the [history] effect is scheduled.
Succeed(r, newCreation) ==
    /\ Len(history) < MaxHist
    /\ activeCreation' = newCreation
    /\ history' = Prepend(newCreation, history)
    /\ effectPending' = TRUE
    /\ isGenerating' = FALSE
    /\ reqs' = [reqs EXCEPT ![r] = Idle]
    /\ UNCHANGED <<hasApiKey, storage, storageFull, phase, aistudio, keyCheck,
                   keySelecting, exAll,
                   alert, inputVars, serviceVars>>

\* The catch blocks of handleGenerate and handleGenerateImage.
Fail(r, error) ==
    /\ handleError(error)
    /\ reqs' = [reqs EXCEPT ![r] = Idle]
    /\ UNCHANGED <<history, activeCreation, storage, storageFull, effectPending,
                   phase, aistudio, keyCheck, keySelecting, exAll, nextId,
                   inputVars, serviceVars>>

\* Mutant of CanSubmit: the generating flag is not looked at.
CanSubmitWhileGenerating(hasText, hasFile) == hasText \/ hasFile

\* InputArea.handleSubmit, lines 115-125: text or a file, and not generating.
CanSubmit(hasText, hasFile) == (hasText \/ hasFile) /\ ~isGenerating

\* InputArea.handleAIImageClick, lines 127-138.
CanGenerateImage(hasText) == hasText /\ ~isGenerating

\* handleGenerate up to its first await (lines 104-117, or 104-126 without a
\* file; bringToLife then gets no detectionContext).
handleGenerate(hasText, hasFile) ==
    /\ Ready /\ MainView
    /\ CanSubmit(hasText, hasFile)
    /\ FreeSlots # {}
    /\ isGenerating' = TRUE
    /\ activeCreation' = Null
    /\ reqs' = [reqs EXCEPT ![FreeSlot] =
                  Req(IF hasFile THEN "identify" ELSE "generate", hasFile,
                      << >>, FALSE, FALSE)]
    /\ UNCHANGED <<history, hasApiKey, storage, storageFull, effectPending,
                   phase, aistudio, keyCheck, keySelecting, exAll, nextId,
                   alert, eventSource, serviceVars>>

\* Mutant of HasDetectionContext: a context is always passed.
HasDetectionContextAlways(detections) == TRUE

\* detectionContext, lines 122-124: defined iff there are detections.
HasDetectionContext(detections) == Len(detections) > 0

\* identifyImage returns the parsed list (line 342); lines 118-126 follow.
IdentifyReturns(r, detections) ==
    /\ Ready
    /\ reqs[r].pc = "identify"
    /\ reqs' = [reqs EXCEPT ![r] =
                  Req("generate", TRUE, detections,
                      HasDetectionContext(detections), FALSE)]
    /\ UNCHANGED <<history, activeCreation, isGenerating, hasApiKey, storage,
                   storageFull, effectPending, phase, aistudio, keyCheck,
                   keySelecting, exAll, nextId,
                   alert, eventSource, inputVars, serviceVars>>

\* The hosted call of identifyImage fails (catch block, lines 343-347).
IdentifyFails(r, error) ==
    /\ Ready
    /\ reqs[r].pc = "identify"
    /\ UNCHANGED eventSource
    /\ IF IdentifyThrows(error)
         THEN Fail(r, KeyResetError)
         ELSE /\ reqs' = [reqs EXCEPT ![r] =
                            Req("generate", TRUE, << >>,
                                HasDetectionContext(<< >>), TRUE)]
              /\ UNCHANGED <<history, activeCreation, isGenerating, hasApiKey,
                             storage, storageFull, effectPending, phase,
                             aistudio, keyCheck, keySelecting, exAll,
                             nextId,
                   alert, inputVars, serviceVars>>

\* fileToBase64 rejects with the reader's error event (line 89).
ReadFileFails(r) ==
    /\ Ready
    /\ reqs[r].pc = "identify"
    /\ UNCHANGED eventSource
    /\ Fail(r, EventError)

\* The identifications of a new Creation, line 134.
CreationIdentifications(detections) ==
    IF Len(detections) > 0 THEN Some(detections) ELSE Undefined

\* bringToLife returns html (the stripped, trimmed text), lines 127-139.
GenerateReturns(r, html, now) ==
    /\ Ready
    /\ reqs[r].pc = "generate"
    /\ UNCHANGED eventSource
    /\ IF html # ""
         THEN /\ nextId < MaxIds
              /\ nextId' = nextId + 1
              /\ Succeed(r, Creation(Uuid(nextId + 1), now,
                                     CreationIdentifications(reqs[r].dets),
                                     html, reqs[r].file))
         ELSE /\ reqs' = [reqs EXCEPT ![r] = Idle]
              /\ UNCHANGED <<history, activeCreation, isGenerating, hasApiKey,
                             storage, storageFull, effectPending, phase,
                             aistudio, keyCheck, keySelecting, exAll,
                             nextId,
                   alert, inputVars, serviceVars>>

\* The hosted call of bringToLife fails (catch block, lines 491-497).
GenerateFails(r, error) ==
    /\ Ready
    /\ reqs[r].pc = "generate"
    /\ UNCHANGED eventSource
    /\ Fail(r, Rethrown(error))

----------------------------------------------------------------------------
\* handleGenerateImage up to the fetch POST of generateFluxImage
\* (lines 145-149, 356).
handleGenerateImage(hasText) ==
    /\ Ready /\ MainView
    /\ CanGenerateImage(hasText)
    /\ FreeSlots # {}
    /\ isGenerating' = TRUE
    /\ activeCreation' = Null
    /\ reqs' = [reqs EXCEPT ![FreeSlot] = Req("post", FALSE, << >>, FALSE, FALSE)]
    /\ UNCHANGED eventSource
    /\ UNCHANGED <<history, hasApiKey, storage, storageFull,
                   effectPending, phase, aistudio, keyCheck, keySelecting,
                   exAll, nextId,
                   alert, serviceVars>>

\* The catch block of generateFluxImage, lines 411-414: generateAIImage is
\* called and its promise returned.
FallBack(r) ==
    /\ reqs' = [reqs EXCEPT ![r].pc = "fallback"]
    /\ UNCHANGED <<history, activeCreation, isGenerating, hasApiKey,
                   storage, storageFull, effectPending, phase,
                   aistudio, keyCheck, keySelecting, exAll, nextId,
                   alert, eventSource, inputVars, serviceVars>>

\* Mutant of Close: the connection is left as it is.
CloseNot(es, r) == es

\* new EventSource(resultUrl), line 383, and eventSource.close().
Open(es, r)  == [es EXCEPT ![r] = "open"]
Close(es, r) == [es EXCEPT ![r] = "closed"]

\* The promise of lines 382-410 rejects.  It was returned from inside the
\* try block without being awaited, so the rejection settles the promise of
\* generateFluxImage itself and never enters its catch block: the awaiting
\* handleGenerateImage (line 149) catches it (lines 162-164).
StreamPromiseRejected(r, error) ==
    /\ Fail(r, error)

\* Lines 150-161: the page around the image becomes a Creation.
ImageSucceeds(r, now) ==
    /\ nextId < MaxIds
    /\ nextId' = nextId + 1
    /\ Succeed(r, Creation(Uuid(nextId + 1), now, Undefined, "flux", TRUE))

\* The POST answers OK with an event id; the EventSource is opened and the
\* 60 s timer started (lines 375-409).
PostOk(r) ==
    /\ Ready
    /\ reqs[r].pc = "post"
    /\ reqs' = [reqs EXCEPT ![r].pc = "sse"]
    /\ eventSource' = Open(eventSource, r)
    /\ UNCHANGED <<history, activeCreation, isGenerating, hasApiKey,
                   storage, storageFull, effectPending, phase,
                   aistudio, keyCheck, keySelecting, exAll, nextId,
                   alert, inputVars, serviceVars>>

\* fetch rejects, the response is not OK (line 375), or json() rejects: each
\* is thrown at an await inside the try block.
PostFails(r) ==
    /\ Ready
    /\ reqs[r].pc = "post"
    /\ FallBack(r)

\* onmessage with msg 'process_completed', lines 385-398.
StreamCompleted(r, hasImage, now) ==
    /\ Ready
    /\ reqs[r].pc = "sse"
    /\ eventSource' = Close(eventSource, r)
    /\ IF hasImage THEN ImageSucceeds(r, now)
                   ELSE StreamPromiseRejected(r, FluxNoImage)

\* onerror, lines 400-403.
StreamError(r) ==
    /\ Ready
    /\ reqs[r].pc = "sse"
    /\ eventSource' = Close(eventSource, r)
    /\ StreamPromiseRejected(r, EventError)

\* The timer of lines 406-409 fires before any 'process_completed'.  (It is
\* never cleared: firing after the promise settled it closes a closed source
\* and rejects a settled promise, which changes nothing.)
StreamTimeout(r) ==
    /\ Ready
    /\ reqs[r].pc = "sse"
    /\ eventSource' = Close(eventSource, r)
    /\ StreamPromiseRejected(r, FluxTimedOut)

\* onmessage with another msg (heartbeat, progress, ...): nothing happens.
StreamProgress(r) ==
    /\ Ready
    /\ reqs[r].pc = "sse"
    /\ UNCHANGED vars

\* generateAIImage gets a response, lines 436-444: with inline image data it
\* returns the data URL, without it throws into its own catch block.
FallbackReturns(r, hasImage, now) ==
    /\ Ready
    /\ reqs[r].pc = "fallback"
    /\ UNCHANGED eventSource
    /\ IF hasImage THEN ImageSucceeds(r, now)
                   ELSE Fail(r, Rethrown(GeminiNoImage))

\* The hosted call of generateAIImage fails (catch block, lines 445-451).
FallbackFails(r, error) ==
    /\ Ready
    /\ reqs[r].pc = "fallback"
    /\ UNCHANGED eventSource
    /\ Fail(r, Rethrown(error))

----------------------------------------------------------------------------
\* A parsed JSON file holding a Creation; id is NoId when absent or falsy.
File(id, ts, ident, html, img) ==
    [id |-> id, ts |-> ts, ident |-> ident, html |-> html, img |-> img]

\* LivePreview's export, JSON.stringify(creation).
Exported(c) == File(c.id, DateToJSON(c.ts), c.ident, c.html, c.img)

\* The example files carry their ids and timestamps.
ExampleFile(i, t) == File(ExampleId(i), JIso(t), Undefined, "file", FALSE)

\* Files offered to the import input: hand-written ones without an id, with
\* an id of their own, with a timestamp Date cannot parse; and exports of
\* the entries of history.
ImportFiles ==
    {File(NoId, JMissing, Undefined, "file", FALSE),
     File(ForeignId, JGarbage, Undefined, "file", FALSE)}
    \cup {File(ForeignId, JIso(t), Undefined, "file", FALSE) : t \in Times}
    \cup {Exported(history[i]) : i \in 1..Len(history)}

\* { ...data, timestamp: new Date(data.timestamp || Date.now()),
\*   id: data.id || crypto.randomUUID() }, lines 68 and 226.
FromFile(data, uuid, now) ==
    Creation(IF data.id # NoId THEN data.id ELSE uuid,
             IF Truthy(data.ts) THEN NewDate(data.ts) ELSE now,
             data.ident, data.html, data.img)

\* examples.filter(e => e !== null), line 70.
ValidExamples(examples) == SelectSeq(examples, LAMBDA e : e # NullEx)

\* The async mapper of lines 64-69 for example i: fetch rejects or json()
\* rejects ("rejected"), the response is not OK ("notok"), or it parses ("ok").
\* The outcome vectors tried: all load, one is not OK, none is OK, one
\* rejects while the others load, one rejects after a non-OK and a load.
Outcomes ==
    { <<"ok", "ok", "ok">>, <<"ok", "notok", "ok">>, <<"notok", "notok", "notok">>,
      <<"ok", "rejected", "ok">>, <<"notok", "ok", "rejected">> }
ExampleMapper(i, outcome, t, now) ==
    CASE outcome = "rejected" -> Rejected
      [] outcome = "notok"    -> NullEx
      [] outcome = "ok"       -> FromFile(ExampleFile(i, t), NoId, now)

\* Promise.all, line 64: rejected as soon as one mapper rejects.
PromiseAllRejects(results) == \E i \in Examples : results[i] = Rejected

\* The await of line 64 ends, the mappers having settled as `outcomes` say:
\* lines 70-71, or the catch block of line 72 (which only logs).
ExamplesSettle(outcomes, t, now) ==
    /\ Ready
    /\ exAll = "waiting"
    /\ LET examples == [i \in Examples |-> ExampleMapper(i, outcomes[i], t, now)] IN
         IF PromiseAllRejects(examples)
         THEN /\ exAll' = "rejected"
              /\ UNCHANGED <<history, effectPending>>
         ELSE /\ exAll' = "done"
              /\ history' = ValidExamples(examples)
              /\ effectPending' = TRUE
    /\ UNCHANGED <<activeCreation, isGenerating, hasApiKey, storage,
                   storageFull, phase, aistudio, keyCheck, keySelecting, reqs,
                   nextId,
                   alert, eventSource, inputVars, serviceVars>>

----------------------------------------------------------------------------
\* Mutants of ImportUpdate: no check for a known id; a check that compares
\* whole records instead of ids.
ImportUpdateNoCheck(imported, prev) == <<imported>> \o prev
ImportUpdateByValue(imported, prev) ==
    IF \E i \in 1..Len(prev) : prev[i] = imported
    THEN prev ELSE <<imported>> \o prev

\* The updater of line 227.
ImportUpdate(imported, prev) ==
    IF \E i \in 1..Len(prev) : prev[i].id = imported.id
    THEN prev ELSE Prepend(imported, prev)

\* The import input's onChange through reader.onload, lines 219-231, for a
\* file that parses to an object.
ImportFile(parsed, now) ==
    /\ Ready /\ MainView
    /\ parsed.id = NoId => nextId < MaxIds
    /\ LET imported == FromFile(parsed, Uuid(nextId + 1), now) IN
         /\ imported.id \notin Ids(history) => Len(history) < MaxHist
         /\ history' = ImportUpdate(imported, history)
         /\ effectPending' = (history' # history)
         /\ activeCreation' = imported
    /\ nextId' = IF parsed.id = NoId THEN nextId + 1 ELSE nextId
    /\ UNCHANGED <<isGenerating, hasApiKey, storage,
                   storageFull, phase, aistudio, keyCheck, keySelecting, exAll, reqs,
                   alert, eventSource, inputVars, serviceVars>>

\* JSON.parse throws, or the spread of a non-object throws: caught, line 229.
ImportUnparsable ==
    /\ Ready /\ MainView
    /\ UNCHANGED vars

\* CreationHistory onSelect={setActiveCreation}, line 212.
SelectCreation(i) ==
    /\ Ready /\ MainView
    /\ i \in 1..Len(history)
    /\ activeCreation' = history[i]
    /\ UNCHANGED <<history, isGenerating, hasApiKey, storage,
                   storageFull, effectPending, phase, aistudio, keyCheck,
                   keySelecting, exAll, reqs, nextId,
                   alert, eventSource, inputVars, serviceVars>>

\* Mutant of onReset: closing the preview also drops the requests in flight.
onResetCancels ==
    /\ Ready /\ MainView
    /\ activeCreation' = Null
    /\ isGenerating' = FALSE
    /\ reqs' = [r \in Slots |-> Idle]
    /\ UNCHANGED <<history, hasApiKey, storage, storageFull,
                   effectPending, phase, aistudio, keyCheck, keySelecting,
                   exAll, nextId, alert, eventSource, inputVars, serviceVars>>

\* LivePreview onReset, line 233.
onReset ==
    /\ Ready /\ MainView
    /\ activeCreation' = Null
    /\ isGenerating' = FALSE
    /\ UNCHANGED <<history, hasApiKey, storage, storageFull,
                   effectPending, phase, aistudio, keyCheck, keySelecting,
                   exAll, reqs, nextId,
                   alert, eventSource, inputVars, serviceVars>>

\* handleOpenKeySelection up to its await, lines 35-37 (nothing happens
\* without window.aistudio).
handleOpenKeySelection ==
    /\ Ready /\ ~MainView
    /\ keySelecting' = aistudio
    /\ UNCHANGED <<history, activeCreation, isGenerating, hasApiKey,
                   storage, storageFull, effectPending, phase,
                   aistudio, keyCheck, exAll, reqs, nextId,
                   alert, eventSource, inputVars, serviceVars>>

\* openSelectKey() resolves: setHasApiKey(true), line 38.
KeySelected ==
    /\ Ready
    /\ keySelecting
    /\ keySelecting' = FALSE
    /\ hasApiKey' = "true"
    /\ UNCHANGED <<history, activeCreation, isGenerating, storage, storageFull, effectPending, phase, aistudio,
                   keyCheck, exAll, reqs, nextId,
                   alert, eventSource, inputVars, serviceVars>>

----------------------------------------------------------------------------
\* The input component, InputArea.tsx.  The text of the input field is a
\* sequence of tokens: " " (white space), "typed" (typed characters),
\* "final" (a transcript the engine marked final), "interim" (one it did not).

\* combinedText, lines 117 and 128.
combinedText ==
    Trim(text \o (IF interimText # << >> THEN <<" ">> \o interimText ELSE << >>))

\* What the user can make the value of the textarea.
TypedValues == {<< >>, <<" ">>, <<"typed">>}

\* handleTextChange, lines 53-56; the textarea is disabled while generating.
handleTextChange(value) ==
    /\ Ready /\ MainView
    /\ ~isGenerating
    /\ text' = value
    /\ finalTranscriptRef' = value
    /\ UNCHANGED <<appVars, serviceVars, interimText, file, isRecording,
                   recognition>>

\* handleFileChange, lines 108-113, and the remove button of the attached
\* file, line 174.
handleFileChange ==
    /\ Ready /\ MainView
    /\ file' = TRUE
    /\ UNCHANGED <<appVars, serviceVars, text, interimText, isRecording,
                   finalTranscriptRef, recognition>>

removeFile ==
    /\ Ready /\ MainView
    /\ file
    /\ file' = FALSE
    /\ UNCHANGED <<appVars, serviceVars, text, interimText, isRecording,
                   finalTranscriptRef, recognition>>

\* toggleRecording, lines 98-106.  stop() lets the engine end; start() on an
\* engine that has not ended throws after isRecording was set; without an
\* engine (recognitionRef.current undefined) neither call happens.
toggleRecording ==
    /\ Ready /\ MainView
    /\ IF isRecording
         THEN /\ recognition' = IF recognition = "listening" THEN "stopping"
                                                             ELSE recognition
              /\ UNCHANGED <<isRecording, finalTranscriptRef>>
         ELSE /\ finalTranscriptRef' = text
              /\ isRecording' = TRUE
              /\ recognition' = IF recognition = "idle" THEN "listening"
                                                        ELSE recognition
    /\ UNCHANGED <<appVars, serviceVars, text, interimText, file>>

\* The results of one 'result' event, from event.resultIndex on: each is
\* final or not.
RecognitionEvents ==
    { <<TRUE>>, <<FALSE>>, <<TRUE, FALSE>>, <<FALSE, TRUE>> }

\* final += (final.endsWith(' ') || final === '' ? '' : ' ') + transcript
AppendTranscript(final) ==
    final \o (IF final = << >> \/ final[Len(final)] = " " THEN << >> ELSE <<" ">>)
          \o <<"final">>

\* The loop of recognition.onresult, lines 70-81, over results[i..]: acc is
\* [final, interim (the local), text, interimText (the state set so far)].
RECURSIVE onresultLoop(_, _, _)
onresultLoop(results, i, acc) ==
    IF i > Len(results) THEN acc
    ELSE IF results[i]
         THEN LET final == AppendTranscript(acc.final) IN
              onresultLoop(results, i + 1,
                  [acc EXCEPT !.final = final, !.text = final,
                              !.interimText = << >>])
         ELSE LET interim == acc.interim \o <<"interim">> IN
              onresultLoop(results, i + 1,
                  [acc EXCEPT !.interim = interim, !.interimText = interim])

\* recognition.onresult, lines 66-82.
onresult(results) ==
    /\ Ready /\ MainView
    /\ recognition \in {"listening", "stopping"}
    /\ LET acc == onresultLoop(results, 1,
                     [final |-> finalTranscriptRef, interim |-> << >>,
                      text |-> text, interimText |-> interimText])
       IN /\ Len(acc.final) <= MaxText
          /\ finalTranscriptRef' = acc.final
          /\ text' = acc.text
          /\ interimText' = acc.interimText
    /\ UNCHANGED <<appVars, serviceVars, file, isRecording, recognition>>

\* recognition.onerror, lines 84-87; the engine ends after an error.
onerror ==
    /\ Ready /\ MainView
    /\ recognition \in {"listening", "stopping"}
    /\ isRecording' = FALSE
    /\ recognition' = "stopping"
    /\ UNCHANGED <<appVars, serviceVars, text, interimText, file,
                   finalTranscriptRef>>

\* recognition.onend, lines 89-92: after stop(), after an error, or when the
\* engine ends on its own.
onend ==
    /\ Ready /\ MainView
    /\ recognition \in {"listening", "stopping"}
    /\ recognition' = "idle"
    /\ isRecording' = FALSE
    /\ interimText' = << >>
    /\ UNCHANGED <<appVars, serviceVars, text, file, finalTranscriptRef>>

\* handleSubmit, lines 115-125 (the form's submit and, through
\* handleKeyDown, the Enter key): onGenerate is App's handleGenerate.
handleSubmit ==
    IF CanSubmit(combinedText # << >>, file)
    THEN /\ handleGenerate(combinedText # << >>, file)
         /\ text' = << >>
         /\ interimText' = << >>
         /\ finalTranscriptRef' = << >>
         /\ file' = FALSE
         /\ UNCHANGED <<isRecording, recognition>>
    ELSE /\ Ready /\ MainView
         /\ UNCHANGED vars

\* handleAIImageClick, lines 127-138: onGenerateImage is App's
\* handleGenerateImage; otherwise the alert asking for a description.
handleAIImageClick ==
    IF CanGenerateImage(combinedText # << >>)
    THEN /\ handleGenerateImage(combinedText # << >>)
         /\ text' = << >>
         /\ interimText' = << >>
         /\ finalTranscriptRef' = << >>
         /\ UNCHANGED <<file, isRecording, recognition>>
    ELSE /\ Ready /\ MainView
         /\ alert' = TRUE
         /\ UNCHANGED <<history, activeCreation, isGenerating, hasApiKey,
                        storage, storageFull, effectPending, phase,
                        aistudio, keyCheck, keySelecting, exAll, reqs, nextId,
                        eventSource, inputVars, serviceVars>>

\* The gated view (line 167) is rendered in place of the tree that holds
\* the InputArea: the component unmounts and a later mount starts from the
\* initial state with a new recognition object.
InputAreaUnmounts ==
    /\ phase = "ready" /\ ~effectPending /\ ~alert
    /\ ~MainView /\ ~InputAreaMounted
    /\ text' = << >>
    /\ interimText' = << >>
    /\ file' = FALSE
    /\ isRecording' = FALSE
    /\ finalTranscriptRef' = << >>
    /\ recognition' = IF recognition = "none" THEN "none" ELSE "idle"
    /\ UNCHANGED <<appVars, serviceVars>>

----------------------------------------------------------------------------
Next ==
    \/ Mount
    \/ \E hasKey \in BOOLEAN : KeyCheckReturns(hasKey)
    \/ PersistEffect
    \/ \E outcomes \in Outcomes, t \in Times, now \in Times :
          ExamplesSettle(outcomes, t, now)
    \/ DismissAlert
    \/ \E hasText, hasFile \in BOOLEAN :
          handleGenerate(hasText, hasFile) /\ UNCHANGED inputVars
    \/ \E r \in Slots, detections \in DetLists : IdentifyReturns(r, detections)
    \/ \E r \in Slots, error \in RemoteErrors : IdentifyFails(r, error)
    \/ \E r \in Slots : ReadFileFails(r)
    \/ \E r \in Slots, resp \in SampleResponses, now \in Times :
          GenerateReturns(r, HtmlOf(bringToLifeText(resp)), now)
    \/ \E r \in Slots, error \in RemoteErrors : GenerateFails(r, error)
    \/ \E hasText \in BOOLEAN :
          handleGenerateImage(hasText) /\ UNCHANGED inputVars
    \/ \E r \in Slots : PostOk(r)
    \/ \E r \in Slots : PostFails(r)
    \/ \E r \in Slots, hasImage \in BOOLEAN, now \in Times :
          StreamCompleted(r, hasImage, now)
    \/ \E r \in Slots : StreamError(r)
    \/ \E r \in Slots : StreamTimeout(r)
    \/ \E r \in Slots : StreamProgress(r)
    \/ \E r \in Slots, hasImage \in BOOLEAN, now \in Times :
          FallbackReturns(r, hasImage, now)
    \/ \E r \in Slots, error \in RemoteErrors : FallbackFails(r, error)
    \/ \E now \in Times : \E parsed \in ImportFiles : ImportFile(parsed, now)
    \/ ImportUnparsable
    \/ \E i \in 1..MaxHist : SelectCreation(i)
    \/ onReset
    \/ handleOpenKeySelection
    \/ KeySelected

Spec == Init /\ [][Next]_vars

\* The input component in its parent: InputArea with the generation flow
\* and the gate of App, in a browser profile with nothing stored, with or
\* without a speech engine.  Import, history selection and the example
\* loader, which neither read nor write what InputArea reads, are left out.
InitInput ==
    /\ AppInit /\ storage = NoItem /\ ~storageFull
    /\ InputInit /\ recognition \in {"none", "idle"}
    /\ ServiceInit

NextInput ==
    \/ Mount
    \/ \E hasKey \in BOOLEAN : KeyCheckReturns(hasKey)
    \/ PersistEffect
    \/ DismissAlert
    \/ InputAreaUnmounts
    \/ \E value \in TypedValues : handleTextChange(value)
    \/ handleFileChange
    \/ removeFile
    \/ toggleRecording
    \/ \E results \in RecognitionEvents : onresult(results)
    \/ onerror
    \/ onend
    \/ handleSubmit
    \/ handleAIImageClick
    \/ \E r \in Slots, detections \in DetLists : IdentifyReturns(r, detections)
    \/ \E r \in Slots, error \in RemoteErrors : IdentifyFails(r, error)
    \/ \E r \in Slots : ReadFileFails(r)
    \/ \E r \in Slots, resp \in SampleResponses, now \in Times :
          GenerateReturns(r, HtmlOf(bringToLifeText(resp)), now)
    \/ \E r \in Slots, error \in RemoteErrors : GenerateFails(r, error)
    \/ \E r \in Slots : PostOk(r)
    \/ \E r \in Slots : PostFails(r)
    \/ \E r \in Slots, hasImage \in BOOLEAN, now \in Times :
          StreamCompleted(r, hasImage, now)
    \/ \E r \in Slots : StreamError(r)
    \/ \E r \in Slots : StreamTimeout(r)
    \/ \E r \in Slots, hasImage \in BOOLEAN, now \in Times :
          FallbackReturns(r, hasImage, now)
    \/ \E r \in Slots, error \in RemoteErrors : FallbackFails(r, error)
    \/ onReset
    \/ handleOpenKeySelection
    \/ KeySelected

InputSpec == InitInput /\ [][NextInput]_vars

----------------------------------------------------------------------------
\* The text processing of bringToLife on its own, for any response text.
InitBringToLife ==
    /\ AppInit /\ storage = NoItem /\ ~storageFull /\ ~aistudio
    /\ InputInit /\ recognition = "idle"
    /\ responseText \in ResponseTexts
    /\ returnedText = NotReturned

\* Lines 488-490: the response arrived, the text is stripped and returned.
bringToLifeReturns ==
    /\ returnedText = NotReturned
    /\ returnedText' = bringToLifeText(responseText)
    /\ UNCHANGED <<appVars, inputVars, responseText>>

NextBringToLife == bringToLifeReturns

SpecBringToLife == InitBringToLife /\ [][NextBringToLife]_vars

----------------------------------------------------------------------------
\* Helpers of the properties below.
\* The ids and timestamps of two lists agree entry by entry.
SameIdsAndTimestamps(a, b) ==
    /\ Len(a) = Len(b)
    /\ \A i \in 1..Len(a) : a[i].id = b[i].id /\ a[i].ts = b[i].ts

\* C1: whenever handleGenerate or handleGenerateImage succeeds (bringToLife
\* returned html, the event stream or the fallback delivered an image), the
\* new Creation, with an id no entry had, is the head of history, the former
\* entries follow it unchanged, and it is the active artifact.
C1_SuccessPrependsAndActivates ==
    [][\A r \in Slots, now \in Times :
          (\/ GenerateReturns(r, "gen", now)
           \/ StreamCompleted(r, TRUE, now)
           \/ FallbackReturns(r, TRUE, now))
          => /\ Len(history') = Len(history) + 1
             /\ history'[1] = activeCreation'
             /\ activeCreation' # Null
             /\ activeCreation'.id \notin Ids(history)
             /\ Tail(history') = history]_vars

\* A generated Creation is active and heads a history that already held
\* other entries.
C1_Witness ==
    /\ activeCreation # Null
    /\ activeCreation.html \in {"gen", "flux"}
    /\ Len(history) >= 2
    /\ history[1] = activeCreation

\* C2: when the 60 s timer fires before any 'process_completed', the
\* fallback generateAIImage is invoked (and the timeout error is not what the
\* caller gets).
C2_TimeoutFallsBack ==
    [][\A r \in Slots :
          StreamTimeout(r) => reqs'[r].pc = "fallback" /\ UNCHANGED isGenerating]_vars

\* C3: every primary-path failure (a failed or non-OK submission, a stream
\* error, a completion without image data) leads to the fallback.
C3_EveryPrimaryFailureFallsBack ==
    [][\A r \in Slots, now \in Times :
          (PostFails(r) \/ StreamError(r) \/ StreamCompleted(r, FALSE, now))
          => reqs'[r].pc = "fallback"]_vars

\* C4: a failure of a hosted-model call that the classification rule takes
\* for quota/auth, in identification, artifact generation or image
\* generation, leaves the application gated with the generating flag cleared.
C4_QuotaErrorGates ==
    [][\A r \in Slots, error \in RemoteErrors :
          (/\ isQuotaOrAuthError(error)
           /\ \/ IdentifyFails(r, error)
              \/ GenerateFails(r, error)
              \/ FallbackFails(r, error))
          => hasApiKey' = "false" /\ isGenerating' = FALSE]_vars

\* Gated although the startup check set hasApiKey to true (no window.aistudio):
\* only handleError can have gated.
C4_Witness == hasApiKey = "false" /\ ~aistudio /\ ~isGenerating

\* C5: importing a file whose id an entry of history already has leaves
\* history as it is; importing one with a new or no id adds exactly one
\* entry, at the head, before the unchanged former entries.
C5_ImportWithoutDuplicate ==
    [][\A now \in Times : \A parsed \in ImportFiles :
          ImportFile(parsed, now)
          => IF parsed.id \in Ids(history)
             THEN history' = history
             ELSE /\ Len(history') = Len(history) + 1
                  /\ Tail(history') = history
                  /\ history'[1].id \notin Ids(history)
                  /\ parsed.id # NoId => history'[1].id = parsed.id]_vars

\* A file with a known id was imported: it is active, and history holds an
\* entry with its id but not the imported record itself.
C5_Witness ==
    /\ activeCreation # Null
    /\ activeCreation.id \in Ids(history)
    /\ \A i \in 1..Len(history) : history[i] # activeCreation

\* C6: an identification failure that is not quota/auth makes identifyImage
\* return [], bringToLife is invoked without a detection context, and the
\* Creation of a request whose identification failed so has no
\* identification list.
C6_IdentificationFailsSoft ==
    [][\A r \in Slots :
          /\ \A error \in RemoteErrors :
                (~isQuotaOrAuthError(error) /\ IdentifyFails(r, error))
                => /\ reqs'[r].pc = "generate"
                   /\ reqs'[r].dets = << >>
                   /\ ~reqs'[r].ctx
          /\ \A now \in Times :
                (reqs[r].idCaught /\ GenerateReturns(r, "gen", now))
                => /\ activeCreation' = history'[1]
                   /\ activeCreation'.ident = Undefined]_vars

\* bringToLife is awaited for a request with a file whose identification
\* failed softly.
C6_Witness ==
    \E r \in Slots :
        /\ reqs[r].pc = "generate"
        /\ reqs[r].file
        /\ reqs[r].idCaught
        /\ ~reqs[r].ctx

\* C7: a non-empty history that the [history] effect has written to storage
\* is loaded by initHistory with the same length and order and with each
\* entry's id and timestamp.
C7_ReloadPreservesIdsAndTimestamps ==
    (phase = "ready" /\ ~effectPending /\ ~storageFull /\ Len(history) > 0)
    => SameIdsAndTimestamps(LoadHistory(storage), history)

\* C8: with nothing usable persisted, every example that was fetched and
\* parsed is in history once the loading has ended, whatever the other
\* examples did.
C8_EveryLoadedExampleIsKept ==
    [][\A outcomes \in Outcomes, t \in Times, now \in Times :
          ExamplesSettle(outcomes, t, now)
          => \A i \in Examples :
                outcomes[i] = "ok" => ExampleId(i) \in Ids(history')]_vars

\* C9: every change of history schedules the write, and the write stores the
\* serialization of the current history when storage is available; a failing
\* write changes nothing.
C9_EveryChangeIsPersisted ==
    [][/\ (history' # history /\ ~storageFull)
          => /\ effectPending'
             /\ PersistWrite(history', storage', storageFull') = Serialize(history')
       /\ (effectPending /\ ~effectPending' /\ storageFull)
          => UNCHANGED <<history, activeCreation, isGenerating, hasApiKey, storage>>]_vars

\* C10: no two entries of history have the same id.
C10_UniqueIds ==
    \A i, j \in 1..Len(history) : i # j => history[i].id # history[j].id

\* History holds an example, a generated or id-less imported entry and an
\* imported entry with its own id.
C10_Witness ==
    /\ \E i \in 1..Len(history) : history[i].id[1] = "ex"
    /\ \E i \in 1..Len(history) : history[i].id[1] = "uuid"
    /\ \E i \in 1..Len(history) : history[i].id = ForeignId

\* C11: no step removes, changes or reorders an entry of history: the
\* former list is always the tail end of the new one, new entries being
\* added at the head only.
C11_HistoryOnlyGrowsAtHead ==
    [][\E k \in 0..Len(history') :
          SubSeq(history', k + 1, Len(history')) = history]_vars

\* C12: an event-stream connection is open only while its request awaits
\* the stream: once the primary path has ended (image, completion without
\* image, stream error, timeout) the connection is closed.
C12_EndedStreamIsClosed ==
    \A r \in Slots : eventSource[r] = "open" => reqs[r].pc = "sse"

\* A connection is open for a request that awaits the stream, in a session
\* whose key check has returned and whose history holds entries.
C12_Witness ==
    /\ \E r \in Slots : eventSource[r] = "open" /\ reqs[r].pc = "sse"
    /\ hasApiKey = "true" /\ aistudio /\ ~keyCheck /\ Len(history) > 0

\* A response that wraps its content in a fence: an opening fence first,
\* one closing fence, nothing but white space after the closing fence.
FencePositions(str) == {i \in 1..Len(str) : str[i] = Fence}
ClosingFence(str) == CHOOSE i \in FencePositions(str) : i # 1
IsWrapped(str) ==
    /\ Cardinality(FencePositions(str)) = 2
    /\ 1 \in FencePositions(str)
    /\ \A i \in (ClosingFence(str) + 1)..Len(str) : IsSpace(str[i])
\* What the fences of a wrapped response enclose (after the language tag).
Enclosed(str) ==
    SubSeq(str, IF str[2] \in {"html", "HTML"} THEN 3 ELSE 2,
           ClosingFence(str) - 1)

\* C13: for a response that wraps the HTML in a fence, with or without a
\* language tag and white space after the closing fence, bringToLife returns
\* the enclosed text trimmed, with no fence marker left in it.
C13_FencesAreStripped ==
    (returnedText # NotReturned /\ IsWrapped(responseText))
    => /\ FencePositions(returnedText) = {}
       /\ returnedText = Trim(Enclosed(responseText))

\* C14: a failure of a hosted-model call is classified quota/auth exactly
\* when its message contains one of the three fragments, its status is
\* RESOURCE_EXHAUSTED or its code is 429; for those failures identifyImage,
\* bringToLife and generateAIImage throw KEY_RESET_REQUIRED; for the others
\* identifyImage returns [] and the other two rethrow the error they caught.
C14_ClassificationRule ==
    [][\A r \in Slots :
        reqs'[r] # reqs[r] =>
        \A error \in RemoteErrors :
          LET quota ==
                \/ \E i \in 1..Len(error.message) :
                      error.message[i] \in {"Requested entity was not found",
                                            "quota", "RESOURCE_EXHAUSTED"}
                \/ error.status = "RESOURCE_EXHAUSTED"
                \/ error.code = 429
          IN /\ isQuotaOrAuthError(error) <=> quota
             /\ IdentifyFails(r, error)
                => IF quota
                   THEN Fail(r, KeyResetError)
                   ELSE /\ reqs'[r] = Req("generate", TRUE, << >>, FALSE, TRUE)
                        /\ UNCHANGED <<hasApiKey, isGenerating, alert>>
             /\ (GenerateFails(r, error) \/ FallbackFails(r, error))
                => Fail(r, IF quota THEN KeyResetError ELSE error)]_vars

\* A request failed with an error that was not classified, before anything
\* was in history: the alert is up, the application is not gated.
C14_Witness ==
    /\ alert /\ hasApiKey = "true" /\ ~isGenerating
    /\ \A r \in Slots : reqs[r].pc = "idle"
    /\ history = << >>

\* C15: when a request fails with an error that is not KEY_RESET_REQUIRED
\* (the file cannot be read, a hosted-model call fails unclassified, the
\* event stream fails, no image comes back), the generating flag is cleared,
\* the generic alert is shown, and the gate state, the history and the
\* active artifact are left as they were.
C15_GenericFailure ==
    [][\A r \in Slots, now \in Times :
          (/\ reqs'[r] # reqs[r]
           /\ \/ ReadFileFails(r)
              \/ StreamError(r) \/ StreamTimeout(r) \/ StreamCompleted(r, FALSE, now)
              \/ FallbackReturns(r, FALSE, now)
              \/ \E error \in RemoteErrors :
                    /\ ~isQuotaOrAuthError(error)
                    /\ GenerateFails(r, error) \/ FallbackFails(r, error))
          => /\ isGenerating' = FALSE
             /\ alert'
             /\ reqs'[r] = Idle
             /\ UNCHANGED <<hasApiKey, history, activeCreation>>]_vars

\* A request failed while history held entries: the alert is up, nothing is
\* active, the application is not gated.
C15_Witness ==
    /\ alert /\ ~isGenerating /\ hasApiKey = "true"
    /\ Len(history) > 0 /\ activeCreation = Null

\* C16: while the generating flag is set no step starts a request (neither
\* the submit nor the image action invokes its callback); a submit that
\* starts a request had text left after trimming or a file attached, and
\* clears text, interim text and the attached file.
C16_GeneratingBlocksSubmit ==
    [][\A r \in Slots :
          (reqs[r].pc = "idle" /\ reqs'[r].pc # "idle")
          => /\ ~isGenerating
             /\ handleSubmit
                => /\ combinedText # << >> \/ file
                   /\ text' = << >> /\ interimText' = << >> /\ file' = FALSE]_vars

\* The generating flag is set while there is something to submit and a
\* request could start: only the guard keeps a submit from invoking onGenerate.
C16_Witness ==
    /\ isGenerating /\ Ready /\ MainView /\ FreeSlots # {}
    /\ combinedText # << >> \/ file

\* C17: a result that is not final changes only the interim text; a final
\* result appends its transcript to the committed text (and, when it is the
\* last result of the event, leaves the interim text empty); the committed
\* text never holds interim text, and the prompt a submit or the image action
\* passes on holds none either.
C17_OnlyFinalIsCommitted ==
    [][/\ \A results \in RecognitionEvents :
             onresult(results)
             => /\ (\A i \in 1..Len(results) : ~results[i])
                   => text' = text /\ interimText' # << >>
                /\ (\E i \in 1..Len(results) : results[i])
                   => /\ Len(text') > Len(text)
                      /\ SubSeq(text', 1, Len(text)) = text
                      /\ text'[Len(text')] = "final"
                /\ results[Len(results)] => interimText' = << >>
       /\ \A i \in 1..Len(text') : text'[i] # "interim"
       /\ (reqs' # reqs /\ (handleSubmit \/ handleAIImageClick))
          => \A i \in 1..Len(combinedText) : combinedText[i] # "interim"]_vars

\* C18: within a handleGenerate request, the start clears the active
\* artifact and sets the generating flag; identification is awaited iff a
\* file was attached and only at the start; artifact generation is entered
\* from the start (no file) or from identification, once, with a detection
\* context iff identification returned detections; history changes through
\* the request only when artifact generation has returned, and the new head
\* is then the active artifact.
C18_GenerationOrder ==
    [][\A r \in Slots :
          reqs'[r] # reqs[r] =>
          LET before == reqs[r]
              after  == reqs'[r]
          IN /\ (before.pc = "idle" /\ after.pc \in {"identify", "generate"})
                => /\ activeCreation' = Null /\ isGenerating'
                   /\ history' = history
                   /\ after.pc = "identify" <=> after.file
             /\ after.pc = "identify" => before.pc = "idle"
             /\ after.pc = "generate"
                => \/ before.pc = "idle" /\ ~after.file /\ ~after.ctx
                   \/ /\ before.pc = "identify" /\ after.file
                      /\ after.ctx <=> after.dets # << >>
             /\ before.pc = "generate" => after.pc = "idle"
             /\ (before.pc \in {"identify", "generate"} /\ history' # history)
                => /\ before.pc = "generate"
                   /\ Tail(history') = history
                   /\ activeCreation' = history'[1]]_vars

\* Artifact generation is awaited with a detection context built from the
\* detections identification returned; nothing is active, the flag is set.
C18_Witness ==
    \E r \in Slots :
        /\ reqs[r].pc = "generate" /\ reqs[r].ctx /\ reqs[r].dets # << >>
        /\ activeCreation = Null /\ isGenerating

\* C19: closing the preview clears the active artifact and the generating
\* flag and leaves the requests in flight as they are; a request that
\* finishes while the flag is cleared still makes its Creation active and
\* prepends it, or still runs handleError (alert or gated view).
C19_ResetDoesNotCancel ==
    [][/\ onReset => activeCreation' = Null /\ ~isGenerating' /\ reqs' = reqs
       /\ \A r \in Slots :
             (~isGenerating /\ reqs[r].pc # "idle" /\ reqs'[r].pc = "idle")
             => \/ /\ Len(history') = Len(history) + 1
                   /\ activeCreation' = history'[1]
                   /\ activeCreation' # Null
                \/ alert' /\ UNCHANGED <<history, activeCreation>>
                \/ hasApiKey' = "false" /\ UNCHANGED <<history, activeCreation>>
                \/ \E now \in Times : GenerateReturns(r, "", now)]_vars

\* A request is in flight although the generating flag is cleared and
\* nothing is active: the preview was closed on it.
C19_Witness ==
    /\ ~isGenerating /\ activeCreation = Null /\ hasApiKey = "true"
    /\ \E r \in Slots : reqs[r].pc \in {"generate", "sse", "fallback"}

\* C20: when no request is in flight the generating flag is cleared (a
\* request whose remote calls have all returned or failed does not leave the
\* flag set).
C20_FlagClearedWhenNoRequest ==
    (\A r \in Slots : reqs[r].pc = "idle") => ~isGenerating

\* C21: in every state the generating flag is set iff at least one
\* generation request is in flight.
C21_FlagIffRequestInFlight ==
    isGenerating <=> \E r \in Slots : reqs[r].pc # "idle"

\* C23: in every state a non-null active artifact has an entry with its
\* identifier in the history list.
C23_ActiveArtifactInHistory ==
    activeCreation # Null => activeCreation.id \in Ids(history)

----------------------------------------------------------------------------
\* The input component and the gate with the scheduling the code has: a
\* pending passive effect runs, an alert is dismissed, the gated view
\* replaces the tree, a key selection that was opened completes, an engine
\* that was stopped ends; and with the user doing what the properties below
\* suppose: activating the key-selection action in the gated view, and
\* toggling the microphone control while recording.
FairInputSpec ==
    /\ InputSpec
    /\ WF_vars(PersistEffect)
    /\ WF_vars(DismissAlert)
    /\ WF_vars(InputAreaUnmounts)
    /\ WF_vars(handleOpenKeySelection)
    /\ WF_vars(KeySelected)
    /\ SF_vars(isRecording /\ toggleRecording)
    /\ SF_vars(recognition = "stopping" /\ onend)

\* C22: from the gated view the main view is reached again: with the
\* key-selection action activated and the selection completing, hasApiKey
\* becomes true, with and without window.aistudio.
C22_GatedViewIsLeft ==
    (hasApiKey = "false") ~> (hasApiKey = "true")

\* C24: whenever the recording flag is set, with the microphone control
\* toggled the recording flag is eventually cleared and the interim text
\* empty, with and without a speech-recognition engine.
C24_DictationStops ==
    isRecording ~> (~isRecording /\ interimText = << >>)

====
